---- MODULE Spec2Model ----
(***************************************************************************)
(* Model of the authentication material of the notes repository:           *)
(*   - the PostgreSQL-backed auth service ("Authentication System Setup"): *)
(*     registerUser, verifyUser, createSession, validateSession,           *)
(*     invalidateSession, cleanupSessions, generateToken, verifyToken,     *)
(*     logAuthEvent, login, authenticate, authorize, loginLimiter;         *)
(*   - the express-session controller (login, logout, isAuthenticated,     *)
(*     hasRole).                                                           *)
(* One clock `now` serves Date.now(), the database NOW() and the JWT       *)
(* clock; durations are scaled down to a few ticks.  Client metadata       *)
(* (ip_address, user_agent) is stored by the code but never read by it and *)
(* is left out of the session and audit rows.  Each handler is one atomic  *)
(* step.                                                                   *)
(***************************************************************************)
EXTENDS Integers, Sequences, FiniteSets, TLC

\* ------------------------------------------------------------------ bounds
MaxLogs  == 2          \* rows the auth_logs table may hold
MaxSids  == 2          \* sessions express-session may create
RateMax    == 2        \* max: 5 attempts per window, scaled
RateWindow == 2        \* windowMs: 15 * 60 * 1000, scaled to ticks
SessionTTL == 2        \* 86400000 ms (24 hours), scaled to ticks
TokenTTL   == 1        \* expiresIn '1h', scaled to ticks
RefreshTTL == 3        \* REFRESH_TOKEN_EXPIRES_IN 7d, scaled to ticks
ResetTTL   == 1        \* 3600000 ms (1 hour), scaled to ticks
MaxResets  == 2        \* reset tokens outstanding at once

Usernames == {"alice"}
Emails    == {"alice@x", "bob@x"}
Passwords == {"Secret123!", "wrong"}
RoleNames == {"admin", "viewer"}
IPs       == {"10.0.0.1", "10.0.0.2"}

MaxTime == SessionTTL + 2   \* last tick of the clock
MaxAttempts == RateMax + 2  \* requests to POST /api/login

NULL == -1             \* SQL NULL / JavaScript null in integer columns

\* ------------------------------------------------------------------- state
VARIABLES
  now,          \* the clock
  users,        \* table users
  roles,        \* table roles (names)
  user_roles,   \* table user_roles
  sessions,     \* table sessions
  auth_logs,    \* table auth_logs, in insertion order
  issued,       \* what successful logins returned to their callers
  invalidated,  \* session tokens for which invalidateSession has returned
  last,         \* the most recent call and what it returned
  req,          \* the request a middleware is applied to
  res,          \* what the middleware did with it
  store,        \* express-session's store: the sessions by sid
  cookies,      \* the sids handed out in connect.sid cookies
  loggedOut,    \* the sids for which POST /logout has answered 200
  hits,         \* loginLimiter's store: per key, the count and the reset time
  seen,         \* per key, the times of its requests to POST /api/login
  refresh_records,  \* the server-side records of the refresh tokens
  refresh_issued,   \* the refresh tokens handed to clients
  inflight,     \* the calls that are between two of their statements
  resetIssued,  \* the reset tokens createPasswordReset has returned
  resetDone,    \* the resetPassword calls that returned success
  conn,         \* the call of connectWithRetry
  tx,           \* the calls of connection.transaction
  pool          \* the pg pool: its clients and the statements they ran

svc_db == <<now, users, roles, user_roles, sessions, auth_logs>>
svc  == <<svc_db, issued, invalidated, last>>
web  == <<store, cookies, loggedOut>>
lim  == <<hits, seen>>
rfr  == <<refresh_records, refresh_issued>>
aux  == <<inflight, resetIssued, resetDone, conn, tx, pool>>
vars == <<svc, req, res, web, lim, rfr, aux>>

\* --------------------------------------------------------------- passwords
\* bcrypt.hash(password, saltRounds): a one-way record of the password
bcryptHash(password) == [alg |-> "bcrypt", of |-> password]

\* bcrypt.compare(password, hash)
bcryptCompare(password, hash) == hash.alg = "bcrypt" /\ hash.of = password

\* ------------------------------------------------------------------ tokens
JWT_SECRET == "your-secret-key"

\* a bearer string that carries no token at all
NoToken == [id |-> NULL, username |-> "", roles |-> {}, iat |-> NULL,
            exp |-> NULL, sig |-> "none"]

\* generateToken(user): jwt.sign({id, username, roles}, JWT_SECRET, {expiresIn})
generateToken(user) ==
  [id |-> user.id, username |-> user.username, roles |-> user.roles,
   iat |-> now, exp |-> now + TokenTTL, sig |-> JWT_SECRET]

verifyToken_ignoresExpiry(token) ==
  IF token.sig = JWT_SECRET THEN token ELSE NoToken

\* verifyToken(token): the payload, or NoToken for the code's null
verifyToken(token) ==
  IF token.sig = JWT_SECRET /\ now < token.exp THEN token ELSE NoToken

\* ------------------------------------------------------------------- users
UserByEmail(email) == {u \in users : u.email = email}
UserById(id) == CHOOSE u \in users : u.id = id

\* verifyUser(email, password): {id, username}, or NULL
verifyUser(email, password) ==
  IF UserByEmail(email) = {} THEN NULL
  ELSE LET user == CHOOSE u \in UserByEmail(email) : TRUE
       IN IF ~bcryptCompare(password, user.password_hash) THEN NULL
          ELSE user.id

Credentials_wholeRow(user) == user

\* what verifyUser returns for the row it found: {id, username}
Credentials(user) == [id |-> user.id, username |-> user.username]

\* getUserWithRoles(userId)
getUserWithRoles(userId) ==
  LET u == UserById(userId)
  IN [id |-> u.id, username |-> u.username, email |-> u.email,
      last_login |-> u.last_login, is_active |-> u.is_active,
      roles |-> {ur.role : ur \in {x \in user_roles : x.user_id = userId}}]

\* ---------------------------------------------------------------- sessions
NewSessionRow_shortExpiry(userId, sessionToken) ==
  [token |-> sessionToken, user_id |-> userId, created_at |-> now,
   expires_at |-> now + SessionTTL - 1, is_valid |-> TRUE]

\* createSession's INSERT: the row for a fresh uuid
NewSessionRow(userId, sessionToken) ==
  [token |-> sessionToken, user_id |-> userId, created_at |-> now,
   expires_at |-> now + SessionTTL, is_valid |-> TRUE]

Max(S) == CHOOSE x \in S : \A y \in S : y <= x

\* uuidv4(): a token no session has carried before
FreshToken ==
  Max({s.token : s \in sessions} \cup {l.session : l \in issued} \cup {0}) + 1

ValidRows_ignoresValidity(sessionToken) ==
  {s \in sessions : s.token = sessionToken /\ s.expires_at > now}

\* validateSession's SELECT ... WHERE token = $1 AND is_valid AND expires_at > NOW()
ValidRows(sessionToken) ==
  {s \in sessions : s.token = sessionToken /\ s.is_valid /\ s.expires_at > now}

InvalidateRows_otherRows(sessionToken) ==
  {IF s.token # sessionToken THEN [s EXCEPT !.is_valid = FALSE] ELSE s :
     s \in sessions}

\* invalidateSession's UPDATE sessions SET is_valid = false WHERE token = $1
InvalidateRows(sessionToken) ==
  {IF s.token = sessionToken THEN [s EXCEPT !.is_valid = FALSE] ELSE s :
     s \in sessions}

CleanedRows_unexpired == {s \in sessions : ~(s.expires_at > now \/ ~s.is_valid)}

\* cleanupSessions' DELETE ... WHERE expires_at < NOW() OR is_valid = false
CleanedRows == {s \in sessions : ~(s.expires_at < now \/ ~s.is_valid)}

validateSessionResult_ignoresActive(sessionToken) ==
  IF ValidRows(sessionToken) = {} THEN NULL
  ELSE (CHOOSE r \in ValidRows(sessionToken) : TRUE).user_id

\* what validateSession returns: the session's user id, or NULL
validateSessionResult(sessionToken) ==
  IF ValidRows(sessionToken) = {} THEN NULL
  ELSE LET s == CHOOSE r \in ValidRows(sessionToken) : TRUE
       IN IF ~UserById(s.user_id).is_active THEN NULL ELSE s.user_id

\* ------------------------------------------------------------------- ghost
\* no user object in a return value
NoUser == [id |-> NULL]

\* no refresh token in a request or a return value
NoRefresh == [rid |-> NULL, sub |-> NULL, iat |-> NULL, exp |-> NULL,
              type |-> "refresh", sig |-> "none"]

Call(op) == [op |-> op, ip |-> "", email |-> "", password |-> "", stok |-> 0,
             jwt |-> NoToken, required |-> {}, ok |-> FALSE, status |-> 0,
             message |-> "", afterLogin |-> FALSE, again |-> FALSE,
             steps |-> <<>>, user |-> NoUser, uid |-> NULL,
             auditFailed |-> FALSE, rtok |-> NoRefresh, fault |-> "none"]

\* -------------------------------------------------------------- middleware
UnknownRoles == {"ghost"}

\* req.user as authorize finds it: absent, without a roles array, or with one
ReqUsers ==
  {[present |-> FALSE, hasRoles |-> FALSE, roles |-> {}],
   [present |-> TRUE, hasRoles |-> FALSE, roles |-> {}]}
  \cup {[present |-> TRUE, hasRoles |-> TRUE, roles |-> R] :
          R \in SUBSET (RoleNames \cup UnknownRoles)}

\* req.session as isAuthenticated and hasRole find it; "" is an undefined role
ReqSessions ==
  {[present |-> FALSE, userId |-> NULL, role |-> ""],
   [present |-> TRUE, userId |-> NULL, role |-> ""]}
  \cup {[present |-> TRUE, userId |-> 1, role |-> r] :
          r \in RoleNames \cup UnknownRoles \cup {""}}

NoReq == [user |-> [present |-> FALSE, hasRoles |-> FALSE, roles |-> {}],
          session |-> [present |-> FALSE, userId |-> NULL, role |-> ""],
          requiredRoles |-> {}, role |-> "",
          authorization |-> [bearer |-> FALSE, token |-> NoToken],
          verifyThrows |-> FALSE]
NoRes == [mw |-> "none", status |-> 0, message |-> "", next |-> FALSE,
          responses |-> 0, nexts |-> 0]

\* res.status(code).json({message}) without next()
Reject(mw, code, message) ==
  [mw |-> mw, status |-> code, message |-> message, next |-> FALSE,
   responses |-> 1, nexts |-> 0]

\* next() without a response: the route's handler runs
CallNext(mw) == [mw |-> mw, status |-> 0, message |-> "", next |-> TRUE,
                 responses |-> 0, nexts |-> 1]

authorizeMw_every(requiredRoles, r) ==
  IF ~r.user.present THEN Reject("authorize", 401, "Authentication required")
  ELSE IF ~(\A role \in requiredRoles :
              r.user.hasRoles /\ role \in r.user.roles)
       THEN Reject("authorize", 403, "Insufficient permissions")
       ELSE CallNext("authorize")

\* authorize(requiredRoles)(req, res, next)
authorizeMw(requiredRoles, r) ==
  IF ~r.user.present THEN Reject("authorize", 401, "Authentication required")
  ELSE IF ~(\E role \in requiredRoles :
              r.user.hasRoles /\ role \in r.user.roles)
       THEN Reject("authorize", 403, "Insufficient permissions")
       ELSE CallNext("authorize")

\* isAuthenticated(req, res, next)
isAuthenticatedMw(r) ==
  IF ~r.session.present \/ r.session.userId = NULL
  THEN Reject("isAuthenticated", 401, "Authentication required")
  ELSE CallNext("isAuthenticated")

hasRoleMw_skipsUndefined(role, r) ==
  IF ~r.session.present \/ r.session.userId = NULL
  THEN Reject("hasRole", 401, "Authentication required")
  ELSE IF r.session.role # "" /\ r.session.role # role /\
          r.session.role # "admin"
       THEN Reject("hasRole", 403, "Insufficient permissions")
       ELSE CallNext("hasRole")

\* hasRole(role)(req, res, next)
hasRoleMw(role, r) ==
  IF ~r.session.present \/ r.session.userId = NULL
  THEN Reject("hasRole", 401, "Authentication required")
  ELSE IF r.session.role # role /\ r.session.role # "admin"
       THEN Reject("hasRole", 403, "Insufficient permissions")
       ELSE CallNext("hasRole")

\* -------------------------------------------------------------------- Init
MaxProcs == 2           \* calls in flight at once
Procs == 1..MaxProcs

\* a call slot with no call in it
Idle == [pc |-> "idle"]
NoCalls == [p \in Procs |-> Idle]

\* connectWithRetry has not been called
NotConnecting == [pc |-> "idle", retries |-> 0, attempts |-> 0, errors |-> <<>>,
                  returned |-> FALSE, thrown |-> ""]

\* no transaction has been started
NoTransactions ==
  [p \in Procs |-> [pc |-> "idle", client |-> FALSE, stmts |-> <<>>,
                    failed |-> "", result |-> "", returned |-> "",
                    thrown |-> ""]]

\* the pool before any connect()
IdlePool == [checkedOut |-> {}, released |-> <<>>]

Init ==
  /\ now = 0
  /\ users = {}
  /\ roles = {}
  /\ user_roles = {}
  /\ sessions = {}
  /\ auth_logs = <<>>
  /\ issued = {}
  /\ invalidated = {}
  /\ last = Call("none")
  /\ req = NoReq
  /\ res = NoRes
  /\ store = {}
  /\ cookies = {}
  /\ loggedOut = {}
  /\ hits = [k \in IPs |-> [totalHits |-> 0, resetTime |-> 0]]
  /\ seen = [k \in IPs |-> <<>>]
  /\ refresh_records = {}
  /\ refresh_issued = {}
  /\ inflight = NoCalls
  /\ resetIssued = {}
  /\ resetDone = {}
  /\ conn = NotConnecting
  /\ tx = NoTransactions
  /\ pool = IdlePool

\* ----------------------------------------------------------------- actions
\* the clock advances
Tick ==
  /\ now < MaxTime
  /\ now' = now + 1
  /\ last' = Call("tick")
  /\ UNCHANGED <<users, roles, user_roles, sessions, auth_logs, issued,
                 invalidated, req, res, web, lim, rfr, aux>>

registerUser_emailNotUnique(username, email, password) ==
  /\ IF \E u \in users : u.username = username
     THEN /\ last' = [Call("registerUser") EXCEPT
                        !.email = email, !.message = "unique_violation"]
          /\ UNCHANGED users
     ELSE /\ users' = users \cup
               {[id |-> Cardinality(users) + 1, username |-> username,
                 email |-> email, password_hash |-> bcryptHash(password),
                 is_active |-> TRUE, last_login |-> NULL, role |-> "user",
                 reset_token |-> NULL, reset_token_expires |-> NULL]}
          /\ last' = [Call("registerUser") EXCEPT !.email = email, !.ok = TRUE]
  /\ UNCHANGED <<now, roles, user_roles, sessions, auth_logs, issued,
                 invalidated, req, res, web, lim, rfr, aux>>

\* registerUser(username, email, password); the UNIQUE constraints make the
\* INSERT throw on a duplicate
registerUser(username, email, password) ==
  /\ IF \E u \in users : u.username = username \/ u.email = email
     THEN /\ last' = [Call("registerUser") EXCEPT
                        !.email = email, !.message = "unique_violation"]
          /\ UNCHANGED users
     ELSE /\ users' = users \cup
               {[id |-> Cardinality(users) + 1, username |-> username,
                 email |-> email, password_hash |-> bcryptHash(password),
                 is_active |-> TRUE, last_login |-> NULL, role |-> "user",
                 reset_token |-> NULL, reset_token_expires |-> NULL]}
          /\ last' = [Call("registerUser") EXCEPT !.email = email, !.ok = TRUE]
  /\ UNCHANGED <<now, roles, user_roles, sessions, auth_logs, issued,
                 invalidated, req, res, web, lim, rfr, aux>>

\* crypto.randomBytes(32).toString('hex'): a token no stored row carries
\* crypto.randomBytes(32).toString('hex'): a token no call has returned before
FreshResetToken ==
  Max({u.reset_token : u \in users} \cup resetIssued \cup {0}) + 1

\* createPasswordReset(email)
createPasswordReset(email) ==
  /\ FreshResetToken <= MaxResets
  /\ users' = {IF u.email = email
               THEN [u EXCEPT !.reset_token = FreshResetToken,
                              !.reset_token_expires = now + ResetTTL]
               ELSE u : u \in users}
  /\ resetIssued' = resetIssued \cup {FreshResetToken}
  /\ last' = [Call("createPasswordReset") EXCEPT
                !.email = email, !.stok = FreshResetToken, !.ok = TRUE]
  /\ UNCHANGED <<now, roles, user_roles, sessions, auth_logs, issued,
                 invalidated, req, res, web, lim, rfr, inflight, resetDone,
                 conn, tx, pool>>

\* resetPassword's SELECT id FROM users WHERE reset_token = $1 AND
\* reset_token_expires > NOW()
ResetRows(token) ==
  {u \in users : u.reset_token = token /\ u.reset_token_expires > now}

\* resetPassword(token, newPassword)
resetPassword(token, newPassword) ==
  /\ IF ResetRows(token) = {}
     THEN /\ last' = [Call("resetPassword") EXCEPT
                        !.stok = token, !.password = newPassword,
                        !.message = "Invalid or expired token"]
          /\ UNCHANGED users
     ELSE LET userId == (CHOOSE u \in ResetRows(token) : TRUE).id
          IN /\ users' = {IF u.id = userId
                          THEN [u EXCEPT
                                  !.password_hash = bcryptHash(newPassword),
                                  !.reset_token = NULL,
                                  !.reset_token_expires = NULL]
                          ELSE u : u \in users}
             /\ last' = [Call("resetPassword") EXCEPT
                           !.stok = token, !.password = newPassword,
                           !.uid = userId, !.ok = TRUE]
  /\ UNCHANGED <<now, roles, user_roles, sessions, auth_logs, issued,
                 invalidated, req, res, web, lim, rfr, aux>>

\* resetPassword(token, newPassword), statement by statement: the SELECT and
\* its early return
resetCall(p, token, newPassword) ==
  /\ inflight[p].pc = "idle"
  /\ IF ResetRows(token) = {}
     THEN /\ last' = [Call("resetPassword") EXCEPT
                        !.stok = token, !.password = newPassword,
                        !.message = "Invalid or expired token",
                        !.again = \E d \in resetDone : d.token = token]
          /\ UNCHANGED inflight
     ELSE /\ inflight' = [inflight EXCEPT ![p] =
                            [pc |-> "reset", token |-> token,
                             password |-> newPassword,
                             userId |-> (CHOOSE u \in ResetRows(token) : TRUE).id]]
          /\ last' = [Call("resetPassword: SELECT") EXCEPT
                        !.stok = token, !.password = newPassword]
  /\ UNCHANGED <<svc_db, issued, invalidated, req, res, web, lim, rfr,
                 resetIssued, resetDone, conn, tx, pool>>

\* resetPassword: bcrypt.hash, the UPDATE ... WHERE id = $2 and the return
resetUpdate(p) ==
  /\ inflight[p].pc = "reset"
  /\ users' = {IF u.id = inflight[p].userId
               THEN [u EXCEPT
                       !.password_hash = bcryptHash(inflight[p].password),
                       !.reset_token = NULL,
                       !.reset_token_expires = NULL]
               ELSE u : u \in users}
  /\ resetDone' = resetDone \cup {[token |-> inflight[p].token, by |-> p]}
  /\ inflight' = [inflight EXCEPT ![p] = Idle]
  /\ last' = [Call("resetPassword") EXCEPT
                !.stok = inflight[p].token, !.password = inflight[p].password,
                !.uid = inflight[p].userId, !.ok = TRUE]
  /\ UNCHANGED <<now, roles, user_roles, sessions, auth_logs, issued,
                 invalidated, req, res, web, lim, rfr, resetIssued, conn, tx,
                 pool>>

\* createRole(name, description)
createRole(name) ==
  /\ name \notin roles
  /\ roles' = roles \cup {name}
  /\ last' = [Call("createRole") EXCEPT !.ok = TRUE]
  /\ UNCHANGED <<now, users, user_roles, sessions, auth_logs, issued,
                 invalidated, req, res, web, lim, rfr, aux>>

\* assignRole(userId, roleName): throws when the role does not exist
assignRole(userId, roleName) ==
  /\ \E u \in users : u.id = userId
  /\ IF roleName \notin roles
     THEN /\ last' = [Call("assignRole") EXCEPT !.message = "Role not found"]
          /\ UNCHANGED user_roles
     ELSE /\ user_roles' = user_roles \cup {[user_id |-> userId, role |-> roleName]}
          /\ last' = [Call("assignRole") EXCEPT !.ok = TRUE]
  /\ UNCHANGED <<now, users, roles, sessions, auth_logs, issued, invalidated,
                 req, res, web, lim, rfr, aux>>

\* deactivateUser(userId)
deactivateUser(userId) ==
  /\ \E u \in users : u.id = userId
  /\ users' = {IF u.id = userId THEN [u EXCEPT !.is_active = FALSE] ELSE u :
                 u \in users}
  /\ last' = [Call("deactivateUser") EXCEPT !.ok = TRUE]
  /\ UNCHANGED <<now, roles, user_roles, sessions, auth_logs, issued,
                 invalidated, req, res, web, lim, rfr, aux>>

\* logAuthEvent(userId, eventType, ipAddress, userAgent, details)
logAuthEvent(log, userId, eventType, details) ==
  Append(log, [user_id |-> userId, event_type |-> eventType,
               details |-> details])

\* the statements login runs, in order
loginSteps(email, password) ==
  <<"SELECT users">>
  \o (IF UserByEmail(email) # {} THEN <<"bcrypt.compare">> ELSE <<>>)
  \o (IF verifyUser(email, password) = NULL THEN <<"INSERT auth_logs">>
      ELSE <<"SELECT users JOIN roles", "jwt.sign", "INSERT sessions",
             "UPDATE users", "INSERT auth_logs">>)

\* what login returns
loginResult(email, password) ==
  IF verifyUser(email, password) = NULL
  THEN [Call("login") EXCEPT !.email = email, !.password = password,
                             !.message = "Invalid credentials",
                             !.steps = loginSteps(email, password)]
  ELSE [Call("login") EXCEPT
          !.email = email, !.password = password, !.ok = TRUE,
          !.jwt = generateToken(getUserWithRoles(verifyUser(email, password))),
          !.stok = FreshToken,
          !.user = getUserWithRoles(verifyUser(email, password)),
          !.steps = loginSteps(email, password)]

loginWrites_keepsLastLogin(email, password) ==
  LET user == verifyUser(email, password)
  IN IF user = NULL
     THEN /\ auth_logs' = logAuthEvent(auth_logs, NULL, "failed_login", email)
          /\ UNCHANGED <<users, sessions, issued>>
     ELSE LET userWithRoles == getUserWithRoles(user)
              token == generateToken(userWithRoles)
              session == NewSessionRow(user, FreshToken)
          IN /\ sessions' = sessions \cup {session}
             /\ UNCHANGED users
             /\ auth_logs' = logAuthEvent(auth_logs, user, "login", "")
             /\ issued' = issued \cup
                  {[user |-> user, token |-> token, session |-> session.token]}

\* what login writes
loginWrites(email, password) ==
  LET user == verifyUser(email, password)
  IN IF user = NULL
     THEN /\ auth_logs' = logAuthEvent(auth_logs, NULL, "failed_login", email)
          /\ UNCHANGED <<users, sessions, issued>>
     ELSE LET userWithRoles == getUserWithRoles(user)
              token == generateToken(userWithRoles)
              session == NewSessionRow(user, FreshToken)
          IN /\ sessions' = sessions \cup {session}
             /\ users' = {IF u.id = user THEN [u EXCEPT !.last_login = now]
                          ELSE u : u \in users}
             /\ auth_logs' = logAuthEvent(auth_logs, user, "login", "")
             /\ issued' = issued \cup
                  {[user |-> user, token |-> token, session |-> session.token]}

\* login(email, password, ipAddress, userAgent)
login_failureStampsUser(email, password) ==
  /\ Len(auth_logs) < MaxLogs
  /\ IF verifyUser(email, password) = NULL
     THEN /\ auth_logs' = logAuthEvent(auth_logs, NULL, "failed_login", email)
          /\ users' = {IF u.email = email THEN [u EXCEPT !.last_login = now]
                       ELSE u : u \in users}
          /\ UNCHANGED <<sessions, issued>>
     ELSE loginWrites(email, password)
  /\ last' = loginResult(email, password)
  /\ UNCHANGED <<now, roles, user_roles, invalidated, req, res, web, lim, rfr, aux>>

login(email, password) ==
  /\ Len(auth_logs) < MaxLogs
  /\ loginWrites(email, password)
  /\ last' = loginResult(email, password)
  /\ UNCHANGED <<now, roles, user_roles, invalidated, req, res, web, lim, rfr, aux>>

\* login(email, password, ipAddress, userAgent) when logAuthEvent's INSERT
\* throws: login awaits it without a try, so the statements before it have
\* run (each query commits on its own) and login rejects with the error
loginAuditFails(email, password) ==
  /\ FreshToken <= MaxLogs
  /\ LET user == verifyUser(email, password)
     IN IF user = NULL
        THEN UNCHANGED <<users, sessions>>
        ELSE /\ sessions' = sessions \cup {NewSessionRow(user, FreshToken)}
             /\ users' = {IF u.id = user THEN [u EXCEPT !.last_login = now]
                          ELSE u : u \in users}
  /\ last' = [Call("login") EXCEPT
                !.email = email, !.password = password, !.auditFailed = TRUE,
                !.message = "INSERT INTO auth_logs failed",
                !.steps = loginSteps(email, password)]
  /\ UNCHANGED <<now, roles, user_roles, auth_logs, issued, invalidated, req,
                 res, web, lim, rfr, aux>>

validateSession_slidingExpiry(sessionToken) ==
  /\ LET inactive == ValidRows(sessionToken) # {} /\
                     validateSessionResult(sessionToken) = NULL
     IN /\ sessions' =
             IF inactive THEN InvalidateRows(sessionToken)
             ELSE {IF s \in ValidRows(sessionToken)
                   THEN [s EXCEPT !.expires_at = now + SessionTTL] ELSE s :
                     s \in sessions}
        /\ invalidated' = IF inactive THEN invalidated \cup {sessionToken}
                          ELSE invalidated
  /\ last' = [Call("validateSession") EXCEPT
                !.stok = sessionToken,
                !.ok = validateSessionResult(sessionToken) # NULL,
                !.afterLogin = last.op = "login" /\ last.ok /\
                               last.stok = sessionToken]
  /\ UNCHANGED <<now, users, roles, user_roles, auth_logs, issued, req, res,
                 web, lim, rfr, aux>>

\* validateSession(sessionToken)
validateSession(sessionToken) ==
  /\ LET inactive == ValidRows(sessionToken) # {} /\
                     validateSessionResult(sessionToken) = NULL
     IN /\ sessions' = IF inactive THEN InvalidateRows(sessionToken) ELSE sessions
        /\ invalidated' = IF inactive THEN invalidated \cup {sessionToken}
                          ELSE invalidated
  /\ last' = [Call("validateSession") EXCEPT
                !.stok = sessionToken,
                !.ok = validateSessionResult(sessionToken) # NULL,
                !.afterLogin = last.op = "login" /\ last.ok /\
                               last.stok = sessionToken]
  /\ UNCHANGED <<now, users, roles, user_roles, auth_logs, issued, req, res, web, lim, rfr, aux>>

\* invalidateSession(sessionToken)
invalidateSession(sessionToken) ==
  /\ sessions' = InvalidateRows(sessionToken)
  /\ invalidated' = invalidated \cup {sessionToken}
  /\ last' = [Call("invalidateSession") EXCEPT !.stok = sessionToken, !.ok = TRUE]
  /\ UNCHANGED <<now, users, roles, user_roles, auth_logs, issued, req, res, web, lim, rfr, aux>>

cleanupSessions_prunesLogs ==
  /\ sessions' = CleanedRows
  /\ auth_logs' = SelectSeq(auth_logs, LAMBDA e : e.user_id # NULL)
  /\ last' = [Call("cleanupSessions") EXCEPT !.ok = TRUE]
  /\ UNCHANGED <<now, users, roles, user_roles, issued, invalidated,
                 req, res, web, lim, rfr, aux>>

\* cleanupSessions()
cleanupSessions ==
  /\ sessions' = CleanedRows
  /\ last' = [Call("cleanupSessions") EXCEPT !.ok = TRUE]
  /\ UNCHANGED <<now, users, roles, user_roles, auth_logs, issued, invalidated,
                 req, res, web, lim, rfr, aux>>

\* deleteExpiredSessions(): DELETE FROM sessions WHERE expires_at <
\* CURRENT_TIMESTAMP
deleteExpiredSessions ==
  /\ sessions' = {s \in sessions : ~(s.expires_at < now)}
  /\ last' = [Call("deleteExpiredSessions") EXCEPT !.ok = TRUE]
  /\ UNCHANGED <<now, users, roles, user_roles, auth_logs, issued, invalidated,
                 req, res, web, lim, rfr, aux>>

\* a caller runs logAuthEvent(userId, eventType, ipAddress, userAgent) itself
logEvent(userId, eventType) ==
  /\ Len(auth_logs) < MaxLogs
  /\ auth_logs' = logAuthEvent(auth_logs, userId, eventType, "")
  /\ last' = [Call("logAuthEvent") EXCEPT !.uid = userId, !.ok = TRUE]
  /\ UNCHANGED <<now, users, roles, user_roles, sessions, issued, invalidated,
                 req, res, web, lim, rfr, aux>>

\* ---------------------------------------------------------------- requests
\* an Authorization header: absent, or "Bearer <token>"
NoHeader == [bearer |-> FALSE, token |-> NoToken]
Bearer(token) == [bearer |-> TRUE, token |-> token]

\* a session uuid sent as the bearer string: no JWT at all
Opaque(sessionToken) == [NoToken EXCEPT !.id = sessionToken, !.sig = "opaque"]

\* a token with the claims of `token`, signed with another key
Forged(token) == [token EXCEPT !.sig = "other-key"]

\* authenticate(req, res, next): the status sent, 200 standing for next()
authenticateStatus(header) ==
  IF ~header.bearer THEN 401
  ELSE IF verifyToken(header.token) = NoToken THEN 401
  ELSE 200

\* GET /api/profile: authenticate, then the handler
authenticate(header) ==
  /\ last' = [Call("authenticate") EXCEPT
                !.jwt = header.token,
                !.status = authenticateStatus(header),
                !.ok = authenticateStatus(header) = 200,
                !.afterLogin = last.op = "login" /\ last.ok /\
                               last.jwt = header.token]
  /\ UNCHANGED <<now, users, roles, user_roles, sessions, auth_logs, issued,
                 invalidated, req, res, web, lim, rfr, aux>>

verifyTokenUnder_decodesOnError(token, throws) ==
  IF throws THEN token ELSE verifyToken(token)

\* verifyToken(token) when jwt.verify may throw for a reason of its own: the
\* catch returns null
verifyTokenUnder(token, throws) ==
  IF throws THEN NoToken ELSE verifyToken(token)

authenticateMw_fallsThrough(header, throws) ==
  IF ~header.bearer
  THEN Reject("authenticate", 401, "Authentication required")
  ELSE IF verifyTokenUnder(header.token, throws) = NoToken
       THEN [Reject("authenticate", 401, "Invalid or expired token") EXCEPT
               !.next = TRUE, !.nexts = 1]
       ELSE CallNext("authenticate")

\* authenticate(req, res, next), as a middleware
authenticateMw(header, throws) ==
  IF ~header.bearer
  THEN Reject("authenticate", 401, "Authentication required")
  ELSE IF verifyTokenUnder(header.token, throws) = NoToken
       THEN Reject("authenticate", 401, "Invalid or expired token")
       ELSE CallNext("authenticate")

\* authenticateJWT(req, res, next): jwt.verify with a callback
authenticateJWTMw(header, throws) ==
  IF ~header.bearer
  THEN Reject("authenticateJWT", 401, "Authentication required")
  ELSE IF throws \/ verifyToken(header.token) = NoToken
       THEN Reject("authenticateJWT", 403, "Invalid token")
       ELSE CallNext("authenticateJWT")

\* a request through authenticate or authenticateJWT while jwt.verify may throw
bearerCheck(mw, header, throws) ==
  LET r == IF mw = "authenticate" THEN authenticateMw(header, throws)
           ELSE authenticateJWTMw(header, throws)
  IN /\ last' = [Call(mw) EXCEPT
                   !.jwt = header.token, !.status = r.status,
                   !.message = r.message, !.ok = r.next,
                   !.fault = IF throws THEN "throws" ELSE "none"]
     /\ UNCHANGED <<now, users, roles, user_roles, sessions, auth_logs, issued,
                    invalidated, req, res, web, lim, rfr, aux>>

\* validateSession(sessionToken) when its query rejects or never completes:
\* the caller gets no session
validateSessionUnder(sessionToken, fault) ==
  /\ last' = [Call("validateSession") EXCEPT
                !.stok = sessionToken, !.fault = fault,
                !.message = IF fault = "throws" THEN "query failed" ELSE ""]
  /\ UNCHANGED <<now, users, roles, user_roles, sessions, auth_logs, issued,
                 invalidated, req, res, web, lim, rfr, aux>>

\* req.user = payload, as authenticate leaves it for the next middleware
WithUser(payload) ==
  [NoReq EXCEPT !.user = [present |-> TRUE, hasRoles |-> TRUE,
                          roles |-> payload.roles]]

\* app.get('/api/users', authenticate, authorize(requiredRoles), handler):
\* the status the client gets, 200 when the handler ran
guardedRouteStatus(header, requiredRoles) ==
  IF authenticateStatus(header) # 200 THEN authenticateStatus(header)
  ELSE LET r == authorizeMw(requiredRoles, WithUser(verifyToken(header.token)))
       IN IF r.next THEN 200 ELSE r.status

guardedRoute(header, requiredRoles) ==
  /\ last' = [Call("guardedRoute") EXCEPT
                !.jwt = header.token,
                !.required = requiredRoles,
                !.status = guardedRouteStatus(header, requiredRoles),
                !.ok = guardedRouteStatus(header, requiredRoles) = 200,
                !.afterLogin = last.op = "login" /\ last.ok /\
                               last.jwt = header.token]
  /\ UNCHANGED <<now, users, roles, user_roles, sessions, auth_logs, issued,
                 invalidated, req, res, web, lim, rfr, aux>>

\* the tokens a client can send: the ones logins returned, and what can be
\* made up without the key
SessionTokens == {l.session : l \in issued} \cup {0}
Headers == {NoHeader} \cup {Bearer(l.token) : l \in issued}
             \cup {Bearer(Forged(l.token)) : l \in issued}
             \cup {Bearer(Opaque(l.session)) : l \in issued}

Next ==
  \/ Tick
  \/ registerUser("alice", "alice@x", "Secret123!")
  \/ \E u \in {x.id : x \in users} : deactivateUser(u)
  \/ \E e \in Emails, p \in Passwords : login(e, p)
  \/ \E t \in SessionTokens : validateSession(t)
  \/ \E t \in SessionTokens : invalidateSession(t)
  \/ cleanupSessions
  \/ \E h \in Headers : authenticate(h)

Spec == Init /\ [][Next]_vars

\* ------------------------------------------------------------ rate limiter
\* the limiter's increment(key): a window that has run out starts again at
\* this request, then the request is counted
Incremented(key) ==
  IF hits[key].resetTime <= now
  THEN [totalHits |-> 1, resetTime |-> now + RateWindow]
  ELSE [hits[key] EXCEPT !.totalHits = @ + 1]

Limited_atMax(key) == Incremented(key).totalHits >= RateMax

\* the request is over the limit: 429, and next() is not called
Limited(key) == Incremented(key).totalHits > RateMax

TotalAttempts == Len(seen["10.0.0.1"]) + Len(seen["10.0.0.2"])

apiLogin_handlerBeforeLimiter(ip, email, password) ==
  /\ TotalAttempts < MaxAttempts
  /\ hits' = [hits EXCEPT ![ip] = Incremented(ip)]
  /\ seen' = [seen EXCEPT ![ip] = Append(@, [at |-> now, limited |-> Limited(ip)])]
  /\ loginWrites(email, password)
  /\ IF Limited(ip)
     THEN last' = [Call("POST /api/login") EXCEPT
                     !.ip = ip, !.email = email, !.password = password,
                     !.status = 429,
                     !.message = "Too many login attempts, please try again later",
                     !.steps = loginSteps(email, password) \o <<"rateLimit">>]
     ELSE last' = [loginResult(email, password) EXCEPT
                     !.op = "POST /api/login", !.ip = ip,
                     !.steps = @ \o <<"rateLimit">>]
  /\ UNCHANGED <<now, roles, user_roles, invalidated, req, res, web, rfr, aux>>

\* app.post('/api/login', loginLimiter, loginHandler), loginHandler calling
\* login with the request's email and password
apiLogin(ip, email, password) ==
  /\ TotalAttempts < MaxAttempts
  /\ hits' = [hits EXCEPT ![ip] = Incremented(ip)]
  /\ seen' = [seen EXCEPT ![ip] = Append(@, [at |-> now, limited |-> Limited(ip)])]
  /\ IF Limited(ip)
     THEN /\ last' = [Call("POST /api/login") EXCEPT
                        !.ip = ip, !.email = email, !.password = password,
                        !.status = 429,
                        !.message = "Too many login attempts, please try again later",
                        !.steps = <<"rateLimit">>]
          /\ UNCHANGED <<users, sessions, auth_logs, issued>>
     ELSE /\ loginWrites(email, password)
          /\ last' = [loginResult(email, password) EXCEPT
                        !.op = "POST /api/login", !.ip = ip,
                        !.steps = <<"rateLimit">> \o @]
  /\ UNCHANGED <<now, roles, user_roles, invalidated, req, res, web, rfr, aux>>

\* the login route behind its limiter
NextLimiter ==
  \/ Tick
  \/ \E n \in Usernames, e \in Emails : registerUser(n, e, "Secret123!")
  \/ \E ip \in IPs, p \in Passwords : apiLogin(ip, "alice@x", p)

SpecLimiter == Init /\ [][NextLimiter]_vars

\* ------------------------------------------------ express-session controller
Response(code, message) == [status |-> code, message |-> message]

httpLoginResponse_namesCause(email, password) ==
  IF email = "" \/ password = ""
  THEN Response(400, "Email and password are required")
  ELSE IF UserByEmail(email) = {} THEN Response(401, "User not found")
  ELSE LET user == CHOOSE u \in UserByEmail(email) : TRUE
       IN IF ~user.is_active THEN Response(401, "Account is inactive")
          ELSE IF ~bcryptCompare(password, user.password_hash)
               THEN Response(401, "Invalid credentials")
               ELSE Response(200, "Login successful")

\* controllers/auth.js login: the response it sends
httpLoginResponse(email, password) ==
  IF email = "" \/ password = ""
  THEN Response(400, "Email and password are required")
  ELSE IF UserByEmail(email) = {} THEN Response(401, "Invalid credentials")
  ELSE LET user == CHOOSE u \in UserByEmail(email) : TRUE
       IN IF ~user.is_active THEN Response(401, "Account is inactive")
          ELSE IF ~bcryptCompare(password, user.password_hash)
               THEN Response(401, "Invalid credentials")
               ELSE Response(200, "Login successful")

\* const { password_hash, ...userWithoutPassword } = user
WithoutPasswordHash(user) ==
  [f \in DOMAIN user \ {"password_hash"} |-> user[f]]

\* req.session as express-session loads it for the cookie's sid: the stored
\* session, or a new empty one
SessionOfSid(sid) == {row \in store : row.sid = sid}
WithSession(sid) ==
  [NoReq EXCEPT !.session =
     IF SessionOfSid(sid) = {} THEN [present |-> TRUE, userId |-> NULL, role |-> ""]
     ELSE LET row == CHOOSE x \in SessionOfSid(sid) : TRUE
          IN [present |-> TRUE, userId |-> row.userId, role |-> row.role]]

\* POST /login: a success sets req.session.userId and req.session.role, which
\* express-session saves under the request's sid or under a new one
httpLogin(sid, email, password) ==
  LET r == httpLoginResponse(email, password)
      user == CHOOSE u \in UserByEmail(email) : TRUE
      newSid == IF SessionOfSid(sid) # {} THEN sid ELSE Cardinality(cookies) + 1
  IN /\ (r.status = 200 /\ SessionOfSid(sid) = {}) => Cardinality(cookies) < MaxSids
     /\ IF r.status = 200
        THEN /\ store' = {row \in store : row.sid # newSid} \cup
                    {[sid |-> newSid, userId |-> user.id, role |-> user.role]}
             /\ cookies' = cookies \cup {newSid}
        ELSE UNCHANGED <<store, cookies>>
     /\ last' = [Call("POST /login") EXCEPT
                   !.email = email, !.password = password,
                   !.stok = IF r.status = 200 THEN newSid ELSE 0,
                   !.status = r.status, !.message = r.message,
                   !.user = IF r.status = 200 THEN WithoutPasswordHash(user)
                            ELSE NoUser,
                   !.ok = r.status = 200]
     /\ UNCHANGED <<svc_db, issued, invalidated, req, res, loggedOut, lim, rfr, aux>>

\* POST /login when userService.findByEmail or bcrypt.compare throws (the
\* catch answers 500) or never completes (no answer): no session is set
httpLoginUnder(sid, email, password, fault) ==
  /\ last' = [Call("POST /login") EXCEPT
                !.email = email, !.password = password, !.fault = fault,
                !.status = IF fault = "throws" THEN 500 ELSE 0,
                !.message = IF fault = "throws"
                            THEN "An error occurred during login" ELSE ""]
  /\ UNCHANGED <<svc_db, issued, invalidated, req, res, web, lim, rfr, aux>>

\* router.post('/logout', isAuthenticated, authController.logout)
httpLogout(sid) ==
  LET mw == isAuthenticatedMw(WithSession(sid))
  IN /\ IF ~mw.next
        THEN /\ last' = [Call("POST /logout") EXCEPT
                           !.stok = sid, !.status = mw.status,
                           !.message = mw.message,
                           !.again = sid \in loggedOut]
             /\ UNCHANGED <<store, loggedOut>>
        ELSE /\ store' = store \ SessionOfSid(sid)
             /\ loggedOut' = loggedOut \cup {sid}
             /\ last' = [Call("POST /logout") EXCEPT
                           !.stok = sid, !.status = 200, !.ok = TRUE,
                           !.message = "Logged out successfully",
                           !.again = sid \in loggedOut]
     /\ UNCHANGED <<svc_db, issued, invalidated, req, res, cookies, lim, rfr, aux>>

\* the controller and the service's login over one users table
NextHttp ==
  \/ \E n \in Usernames, e \in Emails : registerUser(n, e, "Secret123!")
  \/ \E u \in {x.id : x \in users} : deactivateUser(u)
  \/ \E c \in cookies \cup {0}, e \in Emails \cup {""}, p \in Passwords :
       httpLogin(c, e, p)
  \/ \E c \in cookies \cup {0} : httpLogout(c)
  \/ \E e \in Emails, p \in Passwords : login(e, p)

SpecHttp == Init /\ [][NextHttp]_vars

\* ---------------------------------------------------------------- accounts
AllUsernames == Usernames \cup {"bob"}

\* a caller runs verifyUser(email, password) and gets its return value
verifyUserCall(email, password) ==
  /\ last' = IF verifyUser(email, password) = NULL
              THEN [Call("verifyUser") EXCEPT !.email = email,
                                              !.password = password]
              ELSE [Call("verifyUser") EXCEPT
                      !.email = email, !.password = password, !.ok = TRUE,
                      !.user = Credentials(UserById(verifyUser(email, password)))]
  /\ UNCHANGED <<svc_db, issued, invalidated, req, res, web, lim, rfr, aux>>

\* a caller runs getUserWithRoles(userId) and gets its return value
getUserWithRolesCall(userId) ==
  /\ \E u \in users : u.id = userId
  /\ last' = [Call("getUserWithRoles") EXCEPT
                !.ok = TRUE, !.uid = userId, !.user = getUserWithRoles(userId)]
  /\ UNCHANGED <<svc_db, issued, invalidated, req, res, web, lim, rfr, aux>>

\* registration of several users, and the calls that return user objects
NextAccounts ==
  \/ \E n \in AllUsernames, e \in Emails : registerUser(n, e, "Secret123!")
  \/ \E e \in Emails, p \in Passwords : verifyUserCall(e, p)
  \/ \E u \in {x.id : x \in users} : getUserWithRolesCall(u)
  \/ \E e \in Emails, p \in Passwords : login(e, p)
  \/ \E c \in cookies \cup {0}, e \in Emails, p \in Passwords :
       httpLogin(c, e, p)

SpecAccounts == Init /\ [][NextAccounts]_vars

NewPasswords == {"New456!"}

\* password resets between logins and session checks
NextReset ==
  \/ Tick
  \/ registerUser("alice", "alice@x", "Secret123!")
  \/ \E e \in Emails : createPasswordReset(e)
  \/ \E t \in 0..MaxResets, p \in NewPasswords : resetPassword(t, p)
  \/ \E p \in Passwords \cup NewPasswords : login("alice@x", p)
  \/ \E t \in SessionTokens : validateSession(t)

SpecReset == Init /\ [][NextReset]_vars

\* ------------------------------------------------------- login, by statement
\* login is a sequence of awaited queries; other calls run between them
LoginsInFlight == {p \in Procs : inflight[p].pc # "idle"}

\* login(email, password, ...) up to the return of verifyUser
loginCall(p, email, password) ==
  /\ inflight[p].pc = "idle"
  /\ Len(auth_logs) + Cardinality(LoginsInFlight) < MaxLogs
  /\ inflight' = [inflight EXCEPT ![p] =
       [pc |-> IF verifyUser(email, password) = NULL THEN "failed"
               ELSE "verified",
        email |-> email, password |-> password,
        user |-> verifyUser(email, password),
        userWithRoles |-> NoUser, token |-> NoToken, stok |-> 0]]
  /\ last' = Call("login: verifyUser")
  /\ UNCHANGED <<svc_db, issued, invalidated, req, res, web, lim, rfr,
                 resetIssued, resetDone, conn, tx, pool>>

\* if (!user): logAuthEvent(null, 'failed_login', ...) and the return
loginFailed(p) ==
  /\ inflight[p].pc = "failed"
  /\ auth_logs' = logAuthEvent(auth_logs, NULL, "failed_login", inflight[p].email)
  /\ inflight' = [inflight EXCEPT ![p] = Idle]
  /\ last' = [Call("login") EXCEPT
                !.email = inflight[p].email, !.password = inflight[p].password,
                !.message = "Invalid credentials"]
  /\ UNCHANGED <<now, users, roles, user_roles, sessions, issued, invalidated,
                 req, res, web, lim, rfr, resetIssued, resetDone, conn, tx, pool>>

\* getUserWithRoles(user.id) and generateToken(userWithRoles)
loginGetRoles(p) ==
  /\ inflight[p].pc = "verified"
  /\ inflight' = [inflight EXCEPT ![p] =
       [@ EXCEPT !.pc = "token",
                 !.userWithRoles = getUserWithRoles(inflight[p].user),
                 !.token = generateToken(getUserWithRoles(inflight[p].user))]]
  /\ last' = Call("login: getUserWithRoles")
  /\ UNCHANGED <<svc_db, issued, invalidated, req, res, web, lim, rfr,
                 resetIssued, resetDone, conn, tx, pool>>

\* createSession(user.id, ...)
loginCreateSession(p) ==
  /\ inflight[p].pc = "token"
  /\ sessions' = sessions \cup {NewSessionRow(inflight[p].user, FreshToken)}
  /\ inflight' = [inflight EXCEPT ![p] =
       [@ EXCEPT !.pc = "session", !.stok = FreshToken]]
  /\ last' = Call("login: createSession")
  /\ UNCHANGED <<now, users, roles, user_roles, auth_logs, issued, invalidated,
                 req, res, web, lim, rfr, resetIssued, resetDone, conn, tx, pool>>

\* UPDATE users SET last_login = CURRENT_TIMESTAMP WHERE id = $1
loginUpdateLastLogin(p) ==
  /\ inflight[p].pc = "session"
  /\ users' = {IF u.id = inflight[p].user THEN [u EXCEPT !.last_login = now]
               ELSE u : u \in users}
  /\ inflight' = [inflight EXCEPT ![p] = [@ EXCEPT !.pc = "updated"]]
  /\ last' = Call("login: UPDATE users")
  /\ UNCHANGED <<now, roles, user_roles, sessions, auth_logs, issued,
                 invalidated, req, res, web, lim, rfr, resetIssued, resetDone,
                 conn, tx, pool>>

\* logAuthEvent(user.id, 'login', ...) and the return
loginReturn(p) ==
  /\ inflight[p].pc = "updated"
  /\ auth_logs' = logAuthEvent(auth_logs, inflight[p].user, "login", "")
  /\ issued' = issued \cup
       {[user |-> inflight[p].user, token |-> inflight[p].token,
         session |-> inflight[p].stok]}
  /\ inflight' = [inflight EXCEPT ![p] = Idle]
  /\ last' = [Call("login") EXCEPT
                !.email = inflight[p].email, !.password = inflight[p].password,
                !.ok = TRUE, !.jwt = inflight[p].token,
                !.stok = inflight[p].stok, !.user = inflight[p].userWithRoles]
  /\ UNCHANGED <<now, users, roles, user_roles, sessions, invalidated, req,
                 res, web, lim, rfr, resetIssued, resetDone, conn, tx, pool>>

\* concurrent logins of one user, its deactivation, and session checks
NextConcurrent ==
  \/ registerUser("alice", "alice@x", "Secret123!")
  \/ \E u \in {x.id : x \in users} : deactivateUser(u)
  \/ \E p \in Procs, pw \in Passwords : loginCall(p, "alice@x", pw)
  \/ \E p \in Procs : loginFailed(p)
  \/ \E p \in Procs : loginGetRoles(p)
  \/ \E p \in Procs : loginCreateSession(p)
  \/ \E p \in Procs : loginUpdateLastLogin(p)
  \/ \E p \in Procs : loginReturn(p)
  \/ \E t \in SessionTokens : validateSession(t)

SpecConcurrent == Init /\ [][NextConcurrent]_vars

Faults == {"throws", "hangs"}

\* requests whose token verification or store call fails
NextFaults ==
  \/ Tick
  \/ registerUser("alice", "alice@x", "Secret123!")
  \/ \E p \in Passwords : login("alice@x", p)
  \/ \E mw \in {"authenticate", "authenticateJWT"}, h \in Headers,
        throws \in BOOLEAN : bearerCheck(mw, h, throws)
  \/ \E t \in SessionTokens : validateSession(t)
  \/ \E t \in SessionTokens, f \in Faults : validateSessionUnder(t, f)
  \/ \E c \in cookies \cup {0}, p \in Passwords : httpLogin(c, "alice@x", p)
  \/ \E c \in cookies \cup {0}, p \in Passwords, f \in Faults :
       httpLoginUnder(c, "alice@x", p, f)

SpecFaults == Init /\ [][NextFaults]_vars

ResetPasswords == {"New456!", "Other789!"}

\* concurrent resetPassword calls on the tokens createPasswordReset returned
NextResetRace ==
  \/ Tick
  \/ registerUser("alice", "alice@x", "Secret123!")
  \/ createPasswordReset("alice@x")
  \/ \E p \in Procs, t \in resetIssued \cup {0}, w \in ResetPasswords :
       resetCall(p, t, w)
  \/ \E p \in Procs : resetUpdate(p)

SpecResetRace == Init /\ [][NextResetRace]_vars

\* -------------------------------------------------------------- connection
MAX_RETRIES == 5

\* what a failed pool.query('SELECT 1') rejects with
ConnErrors == {"ECONNREFUSED", "ETIMEDOUT"}

\* connectWithRetry(): the call at application startup, retries = MAX_RETRIES
connectCall ==
  /\ conn.pc = "idle"
  /\ conn' = [conn EXCEPT !.pc = "query", !.retries = MAX_RETRIES]
  /\ UNCHANGED <<svc, req, res, web, lim, rfr, inflight, resetIssued,
                 resetDone, tx, pool>>

\* await pool.query('SELECT 1') resolves: return true
queryOk ==
  /\ conn.pc = "query"
  /\ conn' = [conn EXCEPT !.pc = "done", !.attempts = @ + 1,
                          !.returned = TRUE]
  /\ UNCHANGED <<svc, req, res, web, lim, rfr, inflight, resetIssued,
                 resetDone, tx, pool>>

queryFail_givesUpEarly(err) ==
  /\ conn.pc = "query"
  /\ conn' = IF conn.retries <= 1
             THEN [conn EXCEPT !.pc = "done", !.attempts = @ + 1,
                               !.errors = Append(@, err), !.thrown = err]
             ELSE [conn EXCEPT !.pc = "wait", !.attempts = @ + 1,
                               !.errors = Append(@, err)]
  /\ UNCHANGED <<svc, req, res, web, lim, rfr, inflight, resetIssued,
                 resetDone, tx, pool>>

\* await pool.query('SELECT 1') rejects with err: throw it when retries is
\* 0, wait otherwise
queryFail(err) ==
  /\ conn.pc = "query"
  /\ conn' = IF conn.retries = 0
             THEN [conn EXCEPT !.pc = "done", !.attempts = @ + 1,
                               !.errors = Append(@, err), !.thrown = err]
             ELSE [conn EXCEPT !.pc = "wait", !.attempts = @ + 1,
                               !.errors = Append(@, err)]
  /\ UNCHANGED <<svc, req, res, web, lim, rfr, inflight, resetIssued,
                 resetDone, tx, pool>>

\* the setTimeout of RETRY_INTERVAL fires: connectWithRetry(retries - 1)
retryAfterInterval ==
  /\ conn.pc = "wait"
  /\ conn' = [conn EXCEPT !.pc = "query", !.retries = @ - 1]
  /\ UNCHANGED <<svc, req, res, web, lim, rfr, inflight, resetIssued,
                 resetDone, tx, pool>>

NextRetry ==
  \/ connectCall
  \/ queryOk
  \/ \E err \in ConnErrors : queryFail(err)
  \/ retryAfterInterval

\* every query settles and every timer fires
SpecRetry == Init /\ [][NextRetry]_vars /\ WF_vars(NextRetry)

\* a call of connection.transaction(callback) that has started
Started(p) == [NoTransactions[p] EXCEPT !.pc = "connect"]

\* connection.transaction(callback) is called
txCall(p) ==
  /\ tx[p].pc = "idle"
  /\ tx' = [tx EXCEPT ![p] = Started(p)]
  /\ UNCHANGED <<svc, req, res, web, lim, rfr, inflight, resetIssued,
                 resetDone, conn, pool>>

\* const client = await pool.connect(): a client, or a rejection that ends
\* the call before the try
txConnect(p, ok) ==
  /\ tx[p].pc = "connect"
  /\ IF ok
     THEN /\ tx' = [tx EXCEPT ![p].pc = "BEGIN", ![p].client = TRUE]
          /\ pool' = [pool EXCEPT !.checkedOut = @ \cup {p}]
     ELSE /\ tx' = [tx EXCEPT ![p].pc = "done",
                              ![p].thrown = "connect failed"]
          /\ UNCHANGED pool
  /\ UNCHANGED <<svc, req, res, web, lim, rfr, inflight, resetIssued,
                 resetDone, conn>>

txQuery_commitFailureUnrolled(p, ok) ==
  /\ tx[p].pc \in {"BEGIN", "COMMIT"}
  /\ tx' = [tx EXCEPT
              ![p].stmts = Append(@, tx[p].pc),
              ![p].pc = IF ~ok THEN (IF tx[p].pc = "COMMIT" THEN "release"
                                     ELSE "ROLLBACK")
                        ELSE IF tx[p].pc = "BEGIN" THEN "callback"
                        ELSE "release",
              ![p].failed = IF ok THEN "" ELSE tx[p].pc,
              ![p].thrown = IF ~ok /\ tx[p].pc = "COMMIT" THEN "COMMIT failed"
                            ELSE "",
              ![p].returned = IF ok /\ tx[p].pc = "COMMIT" THEN tx[p].result
                              ELSE ""]
  /\ UNCHANGED <<svc, req, res, web, lim, rfr, inflight, resetIssued,
                 resetDone, conn, pool>>

\* await client.query('BEGIN') and await client.query('COMMIT'): a rejection
\* goes to the catch; after COMMIT the result is returned through the finally
txQuery(p, ok) ==
  /\ tx[p].pc \in {"BEGIN", "COMMIT"}
  /\ tx' = [tx EXCEPT
              ![p].stmts = Append(@, tx[p].pc),
              ![p].pc = IF ~ok THEN "ROLLBACK"
                        ELSE IF tx[p].pc = "BEGIN" THEN "callback"
                        ELSE "release",
              ![p].failed = IF ok THEN "" ELSE tx[p].pc,
              ![p].returned = IF ok /\ tx[p].pc = "COMMIT" THEN tx[p].result
                              ELSE ""]
  /\ UNCHANGED <<svc, req, res, web, lim, rfr, inflight, resetIssued,
                 resetDone, conn, pool>>

\* const result = await callback(client)
txCallback(p, ok) ==
  /\ tx[p].pc = "callback"
  /\ tx' = IF ok
           THEN [tx EXCEPT ![p].pc = "COMMIT", ![p].result = "result"]
           ELSE [tx EXCEPT ![p].pc = "ROLLBACK", ![p].failed = "callback"]
  /\ UNCHANGED <<svc, req, res, web, lim, rfr, inflight, resetIssued,
                 resetDone, conn, pool>>

\* catch (e): await client.query('ROLLBACK'); throw e. A ROLLBACK that
\* rejects throws its own error instead
txRollback(p, ok) ==
  /\ tx[p].pc = "ROLLBACK"
  /\ tx' = [tx EXCEPT
              ![p].stmts = Append(@, "ROLLBACK"),
              ![p].pc = "release",
              ![p].thrown = IF ok THEN tx[p].failed \o " failed"
                            ELSE "ROLLBACK failed"]
  /\ UNCHANGED <<svc, req, res, web, lim, rfr, inflight, resetIssued,
                 resetDone, conn, pool>>

\* finally: client.release(), then the call returns or throws
txRelease(p) ==
  /\ tx[p].pc = "release"
  /\ tx' = [tx EXCEPT ![p].pc = "done"]
  /\ pool' = [checkedOut |-> pool.checkedOut \ {p},
              released |-> Append(pool.released, p)]
  /\ UNCHANGED <<svc, req, res, web, lim, rfr, inflight, resetIssued,
                 resetDone, conn>>

\* concurrent calls of connection.transaction on one pool
NextTx ==
  \/ \E p \in Procs : txCall(p)
  \/ \E p \in Procs, ok \in BOOLEAN : txConnect(p, ok)
  \/ \E p \in Procs, ok \in BOOLEAN : txQuery(p, ok)
  \/ \E p \in Procs, ok \in BOOLEAN : txCallback(p, ok)
  \/ \E p \in Procs, ok \in BOOLEAN : txRollback(p, ok)
  \/ \E p \in Procs : txRelease(p)

SpecTx == Init /\ [][NextTx]_vars

\* the sessions of one user between the sweeps, with the audit log
NextSweep ==
  \/ Tick
  \/ registerUser("alice", "alice@x", "Secret123!")
  \/ \E u \in {x.id : x \in users} : deactivateUser(u)
  \/ \E p \in Passwords : login("alice@x", p)
  \/ \E t \in SessionTokens : validateSession(t)
  \/ \E t \in SessionTokens : invalidateSession(t)
  \/ cleanupSessions
  \/ deleteExpiredSessions
  \/ \E u \in {x.id : x \in users} : logEvent(u, "logout")

SpecSweep == Init /\ [][NextSweep]_vars

\* logins while the auth_logs table may be unavailable
NextAudit ==
  \/ \E n \in Usernames, e \in Emails : registerUser(n, e, "Secret123!")
  \/ \E e \in Emails, p \in Passwords : login(e, p)
  \/ \E e \in Emails, p \in Passwords : loginAuditFails(e, p)
  \/ \E t \in SessionTokens : validateSession(t)
  \/ \E t \in SessionTokens : invalidateSession(t)
  \/ cleanupSessions

SpecAudit == Init /\ [][NextAudit]_vars

\* ----------------------------------------------------------- refresh tokens
\* The handlers behind router.post('/refresh', refreshToken) and
\* router.post('/logout', logout) of the auth service are not part of the
\* notes; they are modelled from the design's Token Service and Auth Facade.
MaxRecords == MaxLogs       \* refresh-token records, rotations included

FreshRecord == Cardinality(refresh_records) + 1

\* issueRefreshToken(user): the signed token for a new server-side record
RefreshTokenFor(userId, rid) ==
  [rid |-> rid, sub |-> userId, iat |-> now, exp |-> now + RefreshTTL,
   type |-> "refresh", sig |-> JWT_SECRET]

RecordOf(token) == {r \in refresh_records : r.id = token.rid}

verifyRefresh_statelessOnly(token) ==
  /\ token.sig = JWT_SECRET
  /\ token.type = "refresh"
  /\ now < token.exp

\* verify(token) for a refresh token: signature, expiry, and the server-side
\* record is there and not revoked
verifyRefresh(token) ==
  /\ token.sig = JWT_SECRET
  /\ token.type = "refresh"
  /\ now < token.exp
  /\ \E r \in RecordOf(token) : ~r.revoked

\* login of the facade: the service's login, then a refresh token whose
\* record is stored alongside the session
facadeLogin(email, password) ==
  /\ Len(auth_logs) < MaxLogs
  /\ Cardinality(refresh_records) < MaxRecords
  /\ loginWrites(email, password)
  /\ IF verifyUser(email, password) = NULL
     THEN /\ last' = [loginResult(email, password) EXCEPT !.op = "facadeLogin"]
          /\ UNCHANGED rfr
     ELSE LET rtok == RefreshTokenFor(verifyUser(email, password), FreshRecord)
          IN /\ refresh_records' = refresh_records \cup
                  {[id |-> FreshRecord, session |-> FreshToken,
                    revoked |-> FALSE]}
             /\ refresh_issued' = refresh_issued \cup {rtok}
             /\ last' = [loginResult(email, password) EXCEPT
                           !.op = "facadeLogin", !.rtok = rtok]
  /\ UNCHANGED <<now, roles, user_roles, invalidated, req, res, web, lim, aux>>

\* logout(sessionToken): invalidate the session and the refresh-token records
\* associated with it
facadeLogout(sessionToken) ==
  /\ sessions' = InvalidateRows(sessionToken)
  /\ invalidated' = invalidated \cup {sessionToken}
  /\ refresh_records' =
       {IF r.session = sessionToken THEN [r EXCEPT !.revoked = TRUE] ELSE r :
          r \in refresh_records}
  /\ last' = [Call("facadeLogout") EXCEPT !.stok = sessionToken, !.ok = TRUE]
  /\ UNCHANGED <<now, users, roles, user_roles, auth_logs, issued, req, res,
                 web, lim, refresh_issued, aux>>

\* refresh(refreshToken): a new access token when the token verifies; with
\* rotation, also a new refresh token, the old record being revoked
refresh(token, rotate) ==
  /\ rotate => Cardinality(refresh_records) < MaxRecords
  /\ IF ~verifyRefresh(token)
     THEN /\ last' = [Call("refresh") EXCEPT
                        !.rtok = token, !.status = 401, !.message = "Invalid"]
          /\ UNCHANGED rfr
     ELSE LET old == CHOOSE r \in RecordOf(token) : TRUE
              rtok == RefreshTokenFor(token.sub, FreshRecord)
          IN /\ last' = [Call("refresh") EXCEPT
                           !.rtok = token, !.status = 200, !.ok = TRUE,
                           !.jwt = generateToken(getUserWithRoles(token.sub))]
             /\ IF rotate
                THEN /\ refresh_records' =
                          (refresh_records \ {old}) \cup
                          {[old EXCEPT !.revoked = TRUE],
                           [id |-> FreshRecord, session |-> old.session,
                            revoked |-> FALSE]}
                     /\ refresh_issued' = refresh_issued \cup {rtok}
                ELSE UNCHANGED rfr
  /\ UNCHANGED <<svc_db, issued, invalidated, req, res, web, lim, aux>>

\* the refresh tokens a client can send: the ones it was given, and one
\* signed with another key
RefreshTokens ==
  refresh_issued \cup {[t EXCEPT !.sig = "other-key"] : t \in refresh_issued}

NextRefresh ==
  \/ Tick
  \/ registerUser("alice", "alice@x", "Secret123!")
  \/ \E p \in Passwords : facadeLogin("alice@x", p)
  \/ \E t \in SessionTokens : facadeLogout(t)
  \/ \E t \in RefreshTokens, rotate \in BOOLEAN : refresh(t, rotate)

SpecRefresh == Init /\ [][NextRefresh]_vars

\* logins and the requests that follow them, with role management
NextAccess ==
  \/ \E n \in Usernames, e \in Emails : registerUser(n, e, "Secret123!")
  \/ \E r \in RoleNames : createRole(r)
  \/ \E u \in {x.id : x \in users}, r \in RoleNames : assignRole(u, r)
  \/ \E u \in {x.id : x \in users} : deactivateUser(u)
  \/ \E e \in Emails, p \in Passwords : login(e, p)
  \/ \E t \in SessionTokens : validateSession(t)
  \/ \E h \in Headers, R \in SUBSET RoleNames : guardedRoute(h, R)

SpecAccess == Init /\ [][NextAccess]_vars

\* role assignments between the logins of one user, whose tokens are then
\* presented to routes that require one role
NextRoles ==
  \/ Tick
  \/ registerUser("alice", "alice@x", "Secret123!")
  \/ \E r \in RoleNames : createRole(r)
  \/ \E u \in {x.id : x \in users}, r \in RoleNames : assignRole(u, r)
  \/ login("alice@x", "Secret123!")
  \/ \E l \in issued, r \in RoleNames : guardedRoute(Bearer(l.token), {r})

SpecRoles == Init /\ [][NextRoles]_vars

\* a request reaches one of the role middlewares
\* the Authorization header of a request: absent, or a bearer token that is
\* good, expired or signed with another key
ReqHeaders ==
  LET token == [id |-> 1, username |-> "alice", roles |-> {"viewer"},
                iat |-> 0, exp |-> TokenTTL, sig |-> JWT_SECRET]
  IN {NoHeader, Bearer(token), Bearer([token EXCEPT !.exp = 0]),
      Bearer(Forged(token))}

InitAuthz ==
  /\ now = 0
  /\ users = {}
  /\ roles = {}
  /\ user_roles = {}
  /\ sessions = {}
  /\ auth_logs = <<>>
  /\ issued = {}
  /\ invalidated = {}
  /\ last = Call("none")
  /\ req \in [user : ReqUsers, session : ReqSessions,
               requiredRoles : SUBSET RoleNames, role : RoleNames,
               authorization : ReqHeaders, verifyThrows : BOOLEAN]
  /\ res = NoRes
  /\ store = {}
  /\ cookies = {}
  /\ loggedOut = {}
  /\ hits = [k \in IPs |-> [totalHits |-> 0, resetTime |-> 0]]
  /\ seen = [k \in IPs |-> <<>>]
  /\ refresh_records = {}
  /\ refresh_issued = {}
  /\ inflight = NoCalls
  /\ resetIssued = {}
  /\ resetDone = {}
  /\ conn = NotConnecting
  /\ tx = NoTransactions
  /\ pool = IdlePool

ApplyAuthorize ==
  /\ res = NoRes
  /\ res' = authorizeMw(req.requiredRoles, req)
  /\ UNCHANGED <<svc, req, web, lim, rfr, aux>>

ApplyIsAuthenticated ==
  /\ res = NoRes
  /\ res' = isAuthenticatedMw(req)
  /\ UNCHANGED <<svc, req, web, lim, rfr, aux>>

ApplyHasRole ==
  /\ res = NoRes
  /\ res' = hasRoleMw(req.role, req)
  /\ UNCHANGED <<svc, req, web, lim, rfr, aux>>

ApplyAuthenticate ==
  /\ res = NoRes
  /\ res' = authenticateMw(req.authorization, req.verifyThrows)
  /\ UNCHANGED <<svc, req, web, lim, rfr, aux>>

ApplyAuthenticateJWT ==
  /\ res = NoRes
  /\ res' = authenticateJWTMw(req.authorization, req.verifyThrows)
  /\ UNCHANGED <<svc, req, web, lim, rfr, aux>>

NextAuthz ==
  \/ ApplyAuthorize
  \/ ApplyIsAuthenticated
  \/ ApplyHasRole
  \/ ApplyAuthenticate
  \/ ApplyAuthenticateJWT

SpecAuthz == InitAuthz /\ [][NextAuthz]_vars

\* ------------------------------------------------------------------ claims
SessionOf(sessionToken) == {s \in sessions : s.token = sessionToken}
ExpiredOrInvalid(s) == s.expires_at <= now \/ ~s.is_valid

\* C1: a request that presents the token of a session that is expired (now at
\* or past expires_at) or marked invalid is never authorized: validateSession
\* returns null for it, a call that was answered with a session had a valid,
\* unexpired row, and the bearer check accepts neither a session token nor a
\* JWT that is expired or signed with another key.
C1_ExpiredOrInvalidNeverAuthorized ==
  /\ \A s \in sessions :
       ExpiredOrInvalid(s) => validateSessionResult(s.token) = NULL
  /\ (last.op = "validateSession" /\ last.ok) =>
       \E s \in SessionOf(last.stok) : ~ExpiredOrInvalid(s)
  /\ (last.op = "authenticate" /\ last.ok) =>
       (last.jwt.sig = JWT_SECRET /\ now < last.jwt.exp)

\* C1 witness: the token of a stored session that is expired or invalid was
\* presented and rejected.
C1_Witness ==
  /\ last.op = "validateSession" /\ ~last.ok
  /\ \E s \in SessionOf(last.stok) : ExpiredOrInvalid(s)

\* the logins that returned this JWT
LoginsOf(jwt) == {l \in issued : l.token = jwt}

\* C2 as stated: once invalidateSession has returned for a session's token,
\* validateSession on that token and authenticate with the JWT of the same
\* login both fail.
C2_Original ==
  /\ (last.op = "validateSession" /\ last.stok \in invalidated) => ~last.ok
  /\ (last.op = "authenticate" /\ LoginsOf(last.jwt) # {} /\
      \A l \in LoginsOf(last.jwt) : l.session \in invalidated) => ~last.ok

\* C2 amended: once invalidateSession has returned for a session's token,
\* every later validateSession on that token returns null; the JWT of the
\* same login is untouched by it and authenticate accepts it exactly until
\* its own expiry.
C2_LogoutEndsSessionNotJwt ==
  /\ \A t \in invalidated : validateSessionResult(t) = NULL
  /\ (last.op = "validateSession" /\ last.stok \in invalidated) => ~last.ok
  /\ \A l \in issued : (verifyToken(l.token) = l.token) <=> (now < l.token.exp)
  /\ (last.op = "authenticate" /\ LoginsOf(last.jwt) # {}) =>
       (last.ok <=> now < last.jwt.exp)

\* C2 witness: the token of a session a login created was presented after its
\* invalidateSession and rejected while the row is still unexpired.
C2_Witness ==
  /\ last.op = "validateSession" /\ ~last.ok
  /\ last.stok \in invalidated
  /\ \E s \in SessionOf(last.stok) : s.expires_at > now

\* C3: a session validated at created + ttl - 1 is accepted (when it was not
\* invalidated and its user is active) and one validated at created + ttl + 1
\* is rejected; a JWT verified at iat + ttl - 1 is accepted and one verified
\* at iat + ttl + 1 is rejected.
C3_ExpiryBoundary ==
  /\ \A s \in sessions :
       /\ (now = s.created_at + SessionTTL - 1 /\ s.is_valid /\
           UserById(s.user_id).is_active)
             => validateSessionResult(s.token) = s.user_id
       /\ (now = s.created_at + SessionTTL + 1)
             => validateSessionResult(s.token) = NULL
  /\ \A l \in issued :
       /\ (now = l.token.iat + TokenTTL - 1) => verifyToken(l.token) = l.token
       /\ (now = l.token.iat + TokenTTL + 1) => verifyToken(l.token) = NoToken
  /\ (last.op = "validateSession" /\ ~last.ok) =>
       \A s \in SessionOf(last.stok) :
         ~(s.is_valid /\ UserById(s.user_id).is_active /\
           now = s.created_at + SessionTTL - 1)

\* C3 witness: a session that was never invalidated was presented one tick
\* after its ttl ran out and rejected.
C3_Witness ==
  /\ last.op = "validateSession" /\ ~last.ok
  /\ \E s \in SessionOf(last.stok) :
       s.is_valid /\ now = s.created_at + SessionTTL + 1


\* C4 as stated: login with a registered user's own password succeeds, and a
\* request made immediately afterwards with what login returned and nothing
\* required is allowed, through the bearer route and through validateSession.
C4_Original ==
  /\ (last.op = "login" /\
      \E u \in users : u.email = last.email /\
                        bcryptCompare(last.password, u.password_hash))
        => last.ok
  /\ (last.op = "guardedRoute" /\ last.afterLogin /\ last.required = {})
        => last.ok
  /\ (last.op = "validateSession" /\ last.afterLogin) => last.ok

\* C7 as stated: a second logout with the same session token gives the same
\* result as the first, success, and no error.
C7_Original ==
  (last.op = "POST /logout" /\ last.again) => (last.ok /\ last.status = 200)

\* the code names no permissions: a role stands for the permission of its name
PermissionsOf(principalRoles) == UNION {{role} : role \in principalRoles}

C6_DenyByDefault ==
  /\ (res.mw = "authorize" /\
      (~req.user.hasRoles \/ req.user.roles \cap RoleNames = {}))
        => (~res.next /\ res.status \in {401, 403})
  /\ (res.mw = "hasRole" /\ req.session.role \notin RoleNames)
        => (~res.next /\ res.status \in {401, 403})

\* C6 witness: a logged-in principal whose only role is unknown was refused by
\* hasRole.
C6_Witness ==
  /\ res.mw = "hasRole" /\ res.status = 403
  /\ req.session.userId # NULL /\ req.session.role \in UnknownRoles

\* the place of the last of the requests `log` in its window: a window opens
\* with the first request and with the first one RateWindow or more after the
\* opening of the window before
RECURSIVE PlaceInWindow(_, _, _, _)
PlaceInWindow(log, i, opened, place) ==
  IF i > Len(log) THEN place
  ELSE IF place = 0 \/ log[i].at >= opened + RateWindow
       THEN PlaceInWindow(log, i + 1, log[i].at, 1)
       ELSE PlaceInWindow(log, i + 1, opened, place + 1)

\* C8: for each key, a request is answered Throttled (429) exactly when it is
\* later than the RateMax-th of its window: the first RateMax of a window are
\* admitted, the next ones are not, and once RateWindow has passed since the
\* window opened requests are admitted again.
C8_ThrottledPastMaxInWindow ==
  /\ \A ip \in IPs : \A n \in 1..Len(seen[ip]) :
       seen[ip][n].limited <=>
         PlaceInWindow(SubSeq(seen[ip], 1, n), 1, 0, 0) > RateMax
  /\ last.op = "POST /api/login" =>
       /\ Len(seen[last.ip]) > 0
       /\ (last.status = 429) <=> seen[last.ip][Len(seen[last.ip])].limited

\* C8 witness: a key that was throttled in one window is admitted again in
\* the next.
C8_Witness ==
  /\ last.op = "POST /api/login" /\ last.status # 429
  /\ \E n \in 1..Len(seen[last.ip]) : seen[last.ip][n].limited

InSeq(x, sq) == \E n \in 1..Len(sq) : sq[n] = x

Admitted(ip) == {n \in 1..Len(seen[ip]) : ~seen[ip][n].limited}

\* C9: a throttled login request runs no lookup in the users table and no
\* password-hash comparison and returns no session or token; only admitted
\* requests reach login, so auth_logs has one row per admitted request.
C9_ThrottledSkipsCredentialStore ==
  /\ (last.op = "POST /api/login" /\ last.status = 429) =>
       /\ ~InSeq("SELECT users", last.steps)
       /\ ~InSeq("bcrypt.compare", last.steps)
       /\ ~last.ok /\ last.jwt = NoToken /\ last.stok = 0
  /\ Len(auth_logs) =
       Cardinality(Admitted("10.0.0.1")) + Cardinality(Admitted("10.0.0.2"))

\* C9 witness: a request with a registered user's own password was throttled.
C9_Witness ==
  /\ last.op = "POST /api/login" /\ last.status = 429
  /\ verifyUser(last.email, last.password) # NULL

NoSuchUser(email) == UserByEmail(email) = {}
WrongPassword(email, password) ==
  \E u \in UserByEmail(email) : ~bcryptCompare(password, u.password_hash)
Inactive(email) == \E u \in UserByEmail(email) : ~u.is_active
Sent(l) == l.op = "POST /login" /\ l.email # "" /\ l.password # ""

\* C10 as stated: a login that fails because no user matches the identifier
\* and one that fails for an existing user with a wrong password both end in
\* the same generic "Invalid credentials".
C10_Original ==
  ((last.op = "login" \/ Sent(last)) /\
   (NoSuchUser(last.email) \/ WrongPassword(last.email, last.password)))
    => (~last.ok /\ last.message = "Invalid credentials")

\* C10 amended: the service's login answers {success: false, 'Invalid
\* credentials'} for an unknown identifier and for a wrong password alike; the
\* controller's login answers 401 'Invalid credentials' for an unknown
\* identifier and for an active user's wrong password alike, and 401 'Account
\* is inactive' for an inactive user whatever the password.
C10_GenericInvalidCredentials ==
  /\ (last.op = "login" /\
      (NoSuchUser(last.email) \/ WrongPassword(last.email, last.password)))
        => (~last.ok /\ last.message = "Invalid credentials" /\
            last.jwt = NoToken /\ last.stok = 0)
  /\ (Sent(last) /\ ~Inactive(last.email) /\
      (NoSuchUser(last.email) \/ WrongPassword(last.email, last.password)))
        => (last.status = 401 /\ last.message = "Invalid credentials")
  /\ (Sent(last) /\ Inactive(last.email))
        => (last.status = 401 /\ last.message = "Account is inactive")

\* C10 witness: the controller refused an active user's wrong password with
\* the generic answer.
C10_Witness ==
  /\ Sent(last) /\ ~NoSuchUser(last.email) /\ ~Inactive(last.email)
  /\ WrongPassword(last.email, last.password)
  /\ last.status = 401 /\ last.message = "Invalid credentials"

\* C11 as stated: a login for a user whose is_active is false issues no session
\* and no token and fails, also with the user's own password.
C11_Original ==
  ((last.op = "login" \/ Sent(last)) /\ Inactive(last.email))
    => (~last.ok /\ last.jwt = NoToken /\ last.stok = 0)

\* C12: registerUser with a username or an email that a stored user has
\* fails (the INSERT throws on the UNIQUE constraint) and leaves the users
\* table as it was; a registration that succeeds adds exactly one row; no two
\* users ever share a username, an email or an id.
C12_DuplicateRegistrationRejected ==
  /\ [](\A u, v \in users :
          (u.username = v.username \/ u.email = v.email \/ u.id = v.id)
            => u = v)
  /\ [][(last'.op = "registerUser" /\ ~last'.ok) => users' = users]_vars
  /\ [][(last'.op = "registerUser" /\
          \E u \in users : u.email = last'.email)
            => (~last'.ok /\ users' = users)]_vars
  /\ [][(last'.op = "registerUser" /\ last'.ok)
            => Cardinality(users') = Cardinality(users) + 1]_vars

\* C12 witness: with two users stored, a registration under the email of one
\* of them was refused.
C12_Witness ==
  /\ last.op = "registerUser" /\ ~last.ok
  /\ Cardinality(users) = 2
  /\ \E u \in users : u.email = last.email

Exposes(v) == "password_hash" \in DOMAIN v

\* C13: no user object returned by verifyUser, getUserWithRoles, login or the
\* controller's login, no token's claims and no auth_logs row has a
\* password_hash field.
C13_NoPasswordHashExposed ==
  /\ ~Exposes(last.user)
  /\ ~Exposes(last.jwt)
  /\ \A l \in issued : ~Exposes(l.token)
  /\ \A n \in 1..Len(auth_logs) : ~Exposes(auth_logs[n])

\* C13 witness: verifyUser returned the user object of a stored row, which
\* has a password_hash.
C13_Witness ==
  /\ last.op = "verifyUser" /\ last.ok
  /\ \E u \in users : u.id = last.user.id /\ Exposes(u)

\* the roles user_roles holds for a user
RolesOf(userId) == {ur.role : ur \in {x \in user_roles : x.user_id = userId}}

\* C14: the token a login returns carries the roles the user has when that
\* login runs, so an assignment made before it is in the token; a token
\* issued before an assignment keeps its old roles and is accepted, by
\* verifyToken and by a guarded route, only before iat + TokenTTL.
C14_RoleChangeBoundedStaleness ==
  /\ (last.op = "login" /\ last.ok) =>
       /\ last.jwt.roles = RolesOf(last.jwt.id)
       /\ last.user.roles = RolesOf(last.jwt.id)
       /\ last.jwt.exp = last.jwt.iat + TokenTTL
  /\ \A l \in issued :
       /\ l.token.roles \subseteq RolesOf(l.user)
       /\ verifyToken(l.token) # NoToken => now < l.token.iat + TokenTTL
  /\ (last.op = "guardedRoute" /\ last.ok) =>
       /\ now < last.jwt.iat + TokenTTL
       /\ last.required \cap last.jwt.roles # {}

\* C14 witness: a token issued before an assignment was accepted on a guarded
\* route, inside its lifetime, with the roles it was issued with.
C14_Witness ==
  /\ last.op = "guardedRoute" /\ last.ok
  /\ \E l \in LoginsOf(last.jwt) : last.jwt.roles # RolesOf(l.user)

\* the session a refresh token's record is stored alongside
SessionsOfRefresh(token) == {r.session : r \in RecordOf(token)}

\* C15: refresh answers with a new access token only for a refresh token
\* that verifies (signature, type, expiry) and whose record was not revoked
\* when the request came in; once logout has invalidated a session, no
\* refresh token of that session verifies, and every refresh with one is
\* rejected.
C15_RefreshNeedsLiveRecord ==
  /\ [][(last'.op = "refresh" /\ last'.ok) =>
          /\ last'.rtok.sig = JWT_SECRET /\ now < last'.rtok.exp
          /\ \E r \in RecordOf(last'.rtok) : ~r.revoked
          /\ last'.jwt.id = last'.rtok.sub /\ last'.jwt.sig = JWT_SECRET]_vars
  /\ [](\A t \in refresh_issued :
          SessionsOfRefresh(t) \cap invalidated # {} => ~verifyRefresh(t))
  /\ []((last.op = "refresh" /\
          SessionsOfRefresh(last.rtok) \cap invalidated # {})
            => (~last.ok /\ last.status = 401 /\ last.jwt = NoToken))

\* C15 witness: an unexpired refresh token was refused after the logout of
\* its session.
C15_Witness ==
  /\ last.op = "refresh" /\ ~last.ok
  /\ last.rtok.sig = JWT_SECRET /\ now < last.rtok.exp
  /\ SessionsOfRefresh(last.rtok) \cap invalidated # {}

\* how many times a statement occurs among the steps of a call
CountOf(x, sq) == Cardinality({n \in 1..Len(sq) : sq[n] = x})

\* C16 as stated: every login request that passes the rate check runs exactly
\* one password-hash comparison, whether or not a user matches the identifier.
C16_Original ==
  (last.op = "POST /api/login" /\ last.status # 429) =>
    CountOf("bcrypt.compare", last.steps) = 1

\* C17 as stated: every login request that fails, throttled ones included,
\* has written an audit row for the attempt before it is answered.
C17_Original ==
  (last.op = "POST /api/login" /\ ~last.ok) =>
    /\ InSeq("INSERT auth_logs", last.steps)
    /\ Len(auth_logs) > 0
    /\ auth_logs[Len(auth_logs)].event_type = "failed_login"
    /\ auth_logs[Len(auth_logs)].details = last.email

\* C18 as stated: when the audit write of a login fails, a login with valid
\* credentials still returns success and one with invalid credentials still
\* returns 'Invalid credentials'.
C18_Original ==
  (last.op = "login" /\ last.auditFailed) =>
    IF \E u \in UserByEmail(last.email) :
         bcryptCompare(last.password, u.password_hash)
    THEN last.ok
    ELSE ~last.ok /\ last.message = "Invalid credentials"

\* C19 as stated: once resetPassword has returned success for a user, no
\* session of that user created before it validates.
C19_Original ==
  (last.op = "resetPassword" /\ last.ok) =>
    \A s \in sessions :
      s.user_id = last.uid => validateSessionResult(s.token) = NULL

\* the row of sessions with the token of s, in the next state
Successor(s) == {t \in sessions' : t.token = s.token}

\* C20: every step leaves each session row with its token, user, creation
\* time and expiry time, its validity unchanged or gone from true to false,
\* or removes it, which only cleanupSessions does and only to an expired or
\* invalid row; a row appears only by a login, with a token no row has,
\* created now and expiring SessionTTL later, beside the rows that were
\* there; tokens stay unique.
C20_SessionsNeverMutated ==
  /\ [][\A s \in sessions :
          \/ \E t \in Successor(s) :
               /\ t.user_id = s.user_id
               /\ t.created_at = s.created_at
               /\ t.expires_at = s.expires_at
               /\ t.is_valid => s.is_valid
          \/ /\ Successor(s) = {}
             /\ last'.op = "cleanupSessions"
             /\ s.expires_at < now \/ ~s.is_valid]_vars
  /\ [][\A t \in sessions' :
          (\A s \in sessions : s.token # t.token) =>
            /\ last'.op = "login"
            /\ t.created_at = now /\ t.expires_at = now + SessionTTL
            /\ t.is_valid
            /\ sessions \subseteq sessions']_vars
  /\ [](\A s, t \in sessions : s.token = t.token => s = t)

\* C20 witness: a user has an invalidated session and, beside it, the session
\* of a later login.
C20_Witness ==
  \E s, t \in sessions :
    /\ s.user_id = t.user_id /\ s.token # t.token
    /\ ~s.is_valid /\ t.is_valid /\ t.created_at > s.created_at

\* C21: a sweep (cleanupSessions, deleteExpiredSessions) leaves the result of
\* validateSession unchanged for every token: it removes no row that
\* validateSession accepts, and a row that is expired and not yet swept is
\* answered like a row that is gone, with null.
C21_SweepDoesNotChangeValidation ==
  /\ [][(last'.op \in {"cleanupSessions", "deleteExpiredSessions"}) =>
          \A t \in SessionTokens :
            validateSessionResult(t)' = validateSessionResult(t)]_vars
  /\ [][(last'.op \in {"cleanupSessions", "deleteExpiredSessions"}) =>
          \A s \in sessions \ sessions' :
            validateSessionResult(s.token) = NULL]_vars
  /\ [](\A s \in sessions :
          s.expires_at <= now => validateSessionResult(s.token) = NULL)
  /\ []((last.op = "validateSession" /\ SessionOf(last.stok) = {}) => ~last.ok)

\* C21 witness: the token of a session that a login returned was presented
\* after the sweep removed its row, and refused.
C21_Witness ==
  /\ last.op = "validateSession" /\ ~last.ok
  /\ last.stok \in {l.session : l \in issued}
  /\ SessionOf(last.stok) = {}

\* C22: with logins of a user running statement by statement around a
\* deactivateUser for that user, once deactivateUser has returned no session
\* of the user validates, whichever statements of a login ran before or after
\* it: every row of a deactivated user is refused, and a validateSession that
\* returned a session did so for an active user.
C22_DeactivationCutsOffSessions ==
  /\ \A s \in sessions :
       ~UserById(s.user_id).is_active => validateSessionResult(s.token) = NULL
  /\ (last.op = "validateSession" /\ last.ok) =>
       \E s \in SessionOf(last.stok) : UserById(s.user_id).is_active
  /\ (last.op = "validateSession" /\
      \E s \in SessionOf(last.stok) : ~UserById(s.user_id).is_active)
        => ~last.ok

\* C22 witness: the session a login returned was refused for its deactivated
\* user while another login of that user is past its createSession and has
\* not returned.
C22_Witness ==
  /\ last.op = "validateSession" /\ ~last.ok
  /\ \E s \in SessionOf(last.stok) : ~UserById(s.user_id).is_active
  /\ \E p \in Procs : inflight[p].pc \in {"session", "updated"}

\* C23: a login that returns success has added exactly one row to sessions,
\* valid, owned by the user and carrying the token returned, has signed a
\* token with the roles the user has, has set the user's last_login to now
\* and has appended exactly one 'login' row for that user to auth_logs.
C23_SuccessfulLoginEffects ==
  [][(last'.op = "login" /\ last'.ok) =>
       /\ \E row \in sessions' \ sessions :
            /\ sessions' = sessions \cup {row}
            /\ row.token = last'.stok /\ row.is_valid
            /\ row.user_id = last'.jwt.id
            /\ \E u \in UserByEmail(last'.email) : u.id = row.user_id
       /\ last'.jwt.roles = RolesOf(last'.jwt.id)
       /\ last'.jwt.sig = JWT_SECRET
       /\ \A u \in users' : u.id = last'.jwt.id => u.last_login = now
       /\ \A u \in users' : u.id # last'.jwt.id => u \in users
       /\ auth_logs' = Append(auth_logs, [user_id |-> last'.jwt.id,
                                          event_type |-> "login",
                                          details |-> ""])]_vars

\* C23 witness: a second login of a user succeeded at a later tick, with a
\* role in its token.
C23_Witness ==
  /\ last.op = "login" /\ last.ok /\ last.jwt.roles # {}
  /\ Cardinality(sessions) = 2 /\ now > 0
  /\ \E u \in users : u.id = last.jwt.id /\ u.last_login = now

\* C24: a check whose token verification or store call throws or does not
\* complete never lets the request through: the handler is not called, no
\* session is set or returned, a throw is answered 401, 403 or 500 (or
\* rejects the call), and nothing is written.
C24_FailsClosed ==
  /\ [](last.fault # "none" =>
          /\ ~last.ok
          /\ last.op = "validateSession" => last.status = 0
          /\ last.op = "POST /login" =>
               (last.stok = 0 /\ last.user = NoUser /\
                (last.fault = "throws" => last.status = 500))
          /\ last.op = "authenticate" => last.status = 401
          /\ last.op = "authenticateJWT" => last.status \in {401, 403})
  /\ [][last'.fault # "none" =>
          (sessions' = sessions /\ store' = store /\ cookies' = cookies)]_vars

\* C24 witness: jwt.verify threw on a token that login had just returned and
\* authenticate answered 401.
C24_Witness ==
  /\ last.op = "authenticate" /\ last.fault = "throws" /\ last.status = 401
  /\ LoginsOf(last.jwt) # {} /\ verifyToken(last.jwt) = last.jwt

\* C25: the audit log is append-only: every step of the service leaves the
\* rows recorded so far in place and unchanged, as a prefix of the new log.
C25_AuditLogAppendOnly ==
  [][/\ Len(auth_logs) <= Len(auth_logs')
     /\ SubSeq(auth_logs', 1, Len(auth_logs)) = auth_logs]_vars

\* C25 witness: cleanupSessions or deactivateUser has run on a log that holds
\* a login event and a failed one.
C25_Witness ==
  /\ last.op \in {"cleanupSessions", "deactivateUser"}
  /\ \E i, j \in 1..Len(auth_logs) :
       auth_logs[i].event_type = "login" /\ auth_logs[j].user_id = NULL

\* C26: a login that returns {success: false} carries no token and no
\* session, and its step changes nothing but the audit log, to which it
\* appends one 'failed_login' row with a null user id.
C26_FailedLoginFrame ==
  /\ []((last.op = "login" /\ ~last.ok) =>
          (last.jwt = NoToken /\ last.stok = 0 /\ last.user = NoUser))
  /\ [][(last'.op = "login" /\ ~last'.ok) =>
          /\ sessions' = sessions
          /\ issued' = issued
          /\ users' = users
          /\ roles' = roles /\ user_roles' = user_roles
          /\ auth_logs' = Append(auth_logs,
                                 [user_id |-> NULL,
                                  event_type |-> "failed_login",
                                  details |-> last'.email])]_vars

\* C26 witness: a login with a wrong password has failed for a registered
\* user who had logged in before, at a later time than that login.
C26_Witness ==
  /\ last.op = "login" /\ ~last.ok
  /\ \E u \in users : /\ u.email = last.email
                       /\ u.last_login # NULL /\ u.last_login < now
  /\ auth_logs[Len(auth_logs)].event_type = "failed_login"

\* C27 as stated: of the resetPassword calls with one token at most one
\* returns success, and a call that starts after a success with its token
\* returns 'Invalid or expired token'.
C27_Original ==
  /\ \A t \in resetIssued :
       Cardinality({d \in resetDone : d.token = t}) <= 1
  /\ (last.op = "resetPassword" /\ last.again) => ~last.ok

\* the check of the middleware that answered passed for the request
Passed ==
  LET token == req.authorization.token
      bearerOk == /\ req.authorization.bearer /\ ~req.verifyThrows
                  /\ token.sig = JWT_SECRET /\ token.exp > now
  IN CASE res.mw = "authenticate" -> bearerOk
       [] res.mw = "authenticateJWT" -> bearerOk
       [] res.mw = "authorize" ->
            req.user.present /\ req.user.roles \cap req.requiredRoles # {}
       [] res.mw = "isAuthenticated" ->
            req.session.present /\ req.session.userId # NULL
       [] res.mw = "hasRole" ->
            /\ req.session.present /\ req.session.userId # NULL
            /\ req.session.role \in {req.role, "admin"}
       [] OTHER -> FALSE

\* C28: each of authenticate, authorize, authenticateJWT, isAuthenticated and
\* hasRole either sends one 401 or 403 response or calls next() once, never
\* both and never neither, and calls next() only when its check passed.
C28_OneResponseOrNext ==
  res.mw # "none" =>
    /\ res.responses + res.nexts = 1
    /\ res.next <=> res.nexts = 1
    /\ res.responses = 1 <=> res.status \in {401, 403}
    /\ res.nexts = 1 => (res.status = 0 /\ Passed)

\* C28 witness: authenticateJWT answered 403 to an expired token.
C28_Witness ==
  /\ res.mw = "authenticateJWT" /\ res.status = 403 /\ res.responses = 1
  /\ req.authorization.token.sig = JWT_SECRET
  /\ req.authorization.token.exp <= now /\ ~req.verifyThrows

\* C29: connectWithRetry() ends; it makes at most MAX_RETRIES + 1 = 6
\* attempts, returns true at the first attempt that succeeds and makes no
\* attempt after it, and throws exactly when 6 attempts in a row failed, the
\* error being the one of the last attempt.
C29_RetryTerminates ==
  /\ <>(conn.pc = "done")
  /\ [](/\ conn.attempts <= MAX_RETRIES + 1
        /\ conn.attempts <= 6
        /\ conn.returned =>
             (conn.pc = "done" /\ Len(conn.errors) = conn.attempts - 1 /\
              conn.thrown = "")
        /\ conn.thrown # "" <=>
             (conn.pc = "done" /\ Len(conn.errors) = 6 /\ conn.attempts = 6)
        /\ conn.thrown # "" => conn.thrown = conn.errors[Len(conn.errors)]
        /\ conn.pc = "done" => (conn.returned \/ conn.thrown # ""))
  /\ [][conn.pc = "done" => conn' = conn]_vars

\* C29 witness: the sixth attempt failed after five failures with another
\* error, and connectWithRetry threw the error of the sixth.
C29_Witness ==
  /\ conn.pc = "done" /\ conn.attempts = 6
  /\ conn.thrown = "ETIMEDOUT" /\ conn.errors[1] = "ECONNREFUSED"

\* how often statement q was issued on the client of call p
Issued(p, q) ==
  Cardinality({i \in 1..Len(tx[p].stmts) : tx[p].stmts[i] = q})

\* how often the client of call p was released
Releases(p) ==
  Cardinality({i \in 1..Len(pool.released) : pool.released[i] = p})

\* C30: a call of connection.transaction that obtained a client releases it
\* exactly once, at its end, on every path; it issues ROLLBACK, once, exactly
\* when BEGIN, the callback or COMMIT failed; when the callback and COMMIT
\* succeed it returns the callback's result and issues no ROLLBACK. A call
\* whose pool.connect() failed has no client and releases nothing.
C30_TransactionReleasesOnce ==
  \A p \in Procs :
    /\ Releases(p) <= 1
    /\ tx[p].pc = "done" => (Releases(p) = 1 <=> tx[p].client)
    /\ tx[p].pc # "done" => Releases(p) = 0
    /\ p \in pool.checkedOut <=> (tx[p].client /\ tx[p].pc # "done")
    /\ Issued(p, "ROLLBACK") <= 1
    /\ tx[p].pc \in {"release", "done"} =>
         /\ Issued(p, "ROLLBACK") = 1 <=>
              tx[p].failed \in {"BEGIN", "callback", "COMMIT"}
         /\ (tx[p].client /\ tx[p].failed = "") =>
              /\ tx[p].returned = "result" /\ tx[p].thrown = ""
              /\ tx[p].stmts = <<"BEGIN", "COMMIT">>
         /\ tx[p].failed # "" => (tx[p].returned = "" /\ tx[p].thrown # "")
    /\ ~tx[p].client => tx[p].stmts = <<>>

\* C30 witness: one call ended after a failed COMMIT and a ROLLBACK while
\* another ended with the callback's result, both clients released.
C30_Witness ==
  \E p, q \in Procs :
    /\ tx[p].pc = "done" /\ tx[p].failed = "COMMIT"
    /\ tx[p].stmts = <<"BEGIN", "COMMIT", "ROLLBACK">>
    /\ tx[q].pc = "done" /\ tx[q].returned = "result"
    /\ Releases(p) = 1 /\ Releases(q) = 1 /\ pool.checkedOut = {}

====
